---- MODULE Spec2Model ----
(***************************************************************************)
(* The e-commerce tools of Ecommerce/agent.py: a static catalog, one       *)
(* shared cart, a search history and the nine tool functions that the      *)
(* agent calls.  Every tool call is one atomic step (the module is         *)
(* single-threaded and synchronous).                                       *)
(*                                                                         *)
(* Text.  A Python str is a sequence of one-character strings, so that     *)
(* strip(), lower(), upper() and difflib's character matching are          *)
(* computed and not assumed.  The accented letters are written with a      *)
(* trailing apostrophe ("a'" is a-acute, "e'" is e-acute).                 *)
(*                                                                         *)
(* Money.  Prices in the catalog are Python ints (whole dollars).  The     *)
(* Cart methods return floats; here every amount a Cart method returns is  *)
(* the exact value in ten-thousandths of a dollar, and format_price        *)
(* rounds it to cents the way the "%.2f" format does.  A rate is a         *)
(* percentage; multiplying by it divides by 100 first, which is exact      *)
(* because a subtotal is whole dollars and a discount whole cents.         *)
(*                                                                         *)
(* Results.  resultado holds the dict a tool returns, its formatted        *)
(* prices as cents; of a message only the fixed text is kept.              *)
(***************************************************************************)
EXTENDS Integers, Sequences, FiniteSets, TLC

VARIABLES
    items,                \* carrito.items: the cart lines, in list order
    discount_code,        \* carrito.discount_code: None or a str
    historial_busquedas,  \* the list of raw search queries
    llamada,              \* the name of the last tool called
    resultado             \* the dict that call returned

vars == <<items, discount_code, historial_busquedas, llamada, resultado>>

\* Python's None where a str is expected.  An Optional[int] argument is the
\* empty tuple for None and <<n>> for the int n.
None == <<"None">>

-----------------------------------------------------------------------------
(* str methods                                                             *)

Mayusculas ==
    <<"A","B","C","D","E","F","G","H","I","J","K","L","M","N","O","P","Q",
      "R","S","T","U","V","W","X","Y","Z","A'","E'">>

Minusculas ==
    <<"a","b","c","d","e","f","g","h","i","j","k","l","m","n","o","p","q",
      "r","s","t","u","v","w","x","y","z","a'","e'">>

\* The code points' order, as far as the catalog's and the inputs'
\* characters go: space < "." < digits < A-Z < a-z < accented letters.
Alfabeto ==
    <<" ", ".", "0","1","2","3","4","5","6","7","8","9">>
    \o SubSeq(Mayusculas, 1, 26) \o SubSeq(Minusculas, 1, 26)
    \o <<"A'", "E'", "a'", "e'">>

ord(c) == CHOOSE k \in 1..Len(Alfabeto) : Alfabeto[k] = c

lower_char(c) ==
    IF \E k \in 1..Len(Mayusculas) : Mayusculas[k] = c
    THEN Minusculas[CHOOSE k \in 1..Len(Mayusculas) : Mayusculas[k] = c]
    ELSE c

upper_char(c) ==
    IF \E k \in 1..Len(Minusculas) : Minusculas[k] = c
    THEN Mayusculas[CHOOSE k \in 1..Len(Minusculas) : Minusculas[k] = c]
    ELSE c

lower(s) == [i \in 1..Len(s) |-> lower_char(s[i])]

upper(s) == [i \in 1..Len(s) |-> upper_char(s[i])]

\* str.strip(): the text between the first and the last non-blank.
strip(s) ==
    LET solid == {i \in 1..Len(s) : s[i] # " "}
    IN  IF solid = {} THEN <<>>
        ELSE SubSeq(s, CHOOSE i \in solid : \A j \in solid : i <= j,
                       CHOOSE i \in solid : \A j \in solid : j <= i)

\* s < t for two str (lexicographic on code points).
RECURSIVE str_less(_, _)
str_less(s, t) ==
    IF t = <<>> THEN FALSE
    ELSE IF s = <<>> THEN TRUE
    ELSE IF s[1] # t[1] THEN ord(s[1]) < ord(t[1])
    ELSE str_less(Tail(s), Tail(t))

-----------------------------------------------------------------------------
(* Configuration                                                           *)

\* TAX_RATE = 0.08, as a percentage.
TAX_RATE == 8

SHIPPING_THRESHOLD == 100

SHIPPING_COST == 10

\* DISCOUNT_CODES: code -> rate, the rate as a percentage; in dict order.
DISCOUNT_CODES ==
    << [codigo |-> <<"W","E","L","C","O","M","E","1","0">>, tasa |-> 10],
       [codigo |-> <<"S","A","V","E","2","0">>,             tasa |-> 20],
       [codigo |-> <<"V","I","P","3","0">>,                 tasa |-> 30] >>

DiscountKeys == {DISCOUNT_CODES[k].codigo : k \in 1..Len(DISCOUNT_CODES)}

DiscountRate(codigo) ==
    DISCOUNT_CODES[CHOOSE k \in 1..Len(DISCOUNT_CODES) :
                       DISCOUNT_CODES[k].codigo = codigo].tasa

-----------------------------------------------------------------------------
(* The catalog                                                             *)

\* PRODUCTOS_DB, in dict (insertion) order.  rating is in tenths.
PRODUCTOS_DB ==
    << [key |-> <<"l","a","p","t","o","p"," ","g","a","m","e","r"," ","p","r","o">>,
        id |-> "LPG001", nombre |-> "Laptop Gamer Pro", precio |-> 1500,
        stock |-> 10, categoria |-> <<"C","o","m","p","u","t","a","d","o","r","a","s">>,
        rating |-> 48, reviews |-> 127],
       [key |-> <<"t","e","c","l","a","d","o"," ","m","e","c","a","n","i","c","o"," ","r","g","b">>,
        id |-> "TEC005", nombre |-> "Teclado Meca'nico RGB", precio |-> 120,
        stock |-> 25, categoria |-> <<"P","e","r","i","f","e'","r","i","c","o","s">>,
        rating |-> 46, reviews |-> 89],
       [key |-> <<"m","o","n","i","t","o","r"," ","4","k"," ","h","d","r">>,
        id |-> "MON003", nombre |-> "Monitor 4K HDR", precio |-> 400,
        stock |-> 5, categoria |-> <<"M","o","n","i","t","o","r","e","s">>,
        rating |-> 49, reviews |-> 203],
       [key |-> <<"m","o","u","s","e"," ","g","a","m","i","n","g"," ","p","r","o">>,
        id |-> "MOU002", nombre |-> "Mouse Gaming Pro", precio |-> 80,
        stock |-> 15, categoria |-> <<"P","e","r","i","f","e'","r","i","c","o","s">>,
        rating |-> 47, reviews |-> 156],
       [key |-> <<"a","u","r","i","c","u","l","a","r","e","s"," ","7",".","1">>,
        id |-> "AUR004", nombre |-> "Auriculares Gaming 7.1", precio |-> 150,
        stock |-> 8, categoria |-> <<"A","u","d","i","o">>,
        rating |-> 45, reviews |-> 94] >>

ProductKeys == [k \in 1..Len(PRODUCTOS_DB) |-> PRODUCTOS_DB[k].key]

ProductByKey(key) ==
    PRODUCTOS_DB[CHOOSE k \in 1..Len(PRODUCTOS_DB) : PRODUCTOS_DB[k].key = key]

ProductById(id) ==
    PRODUCTOS_DB[CHOOSE k \in 1..Len(PRODUCTOS_DB) : PRODUCTOS_DB[k].id = id]

-----------------------------------------------------------------------------
(* difflib, as find_product_fuzzy uses it: SequenceMatcher(a = a catalog    *)
(* key, b = the query), no junk (autojunk needs 200 characters).            *)
(* Positions are Python's: 0-based, ranges half open.                       *)

\* The length k that find_longest_match's inner loop stores in newj2len[j]
\* at a[i]: the run of equal characters ending at a[i], b[j] inside the
\* window (0 when a[i] # b[j]).
RECURSIVE run_ending_at(_, _, _, _, _, _)
run_ending_at(a, b, i, j, alo, blo) ==
    IF i < alo \/ j < blo THEN 0
    ELSE IF a[i + 1] # b[j + 1] THEN 0
    ELSE 1 + run_ending_at(a, b, i - 1, j - 1, alo, blo)

\* SequenceMatcher.find_longest_match: <<besti, bestj, bestsize>>.  The
\* loops scan i, then j, upwards and replace the best only by a strictly
\* longer run: the longest block, the earliest in a, then the earliest in b.
find_longest_match(a, b, alo, ahi, blo, bhi) ==
    LET cells == {c \in (alo..(ahi - 1)) \X (blo..(bhi - 1)) :
                     a[c[1] + 1] = b[c[2] + 1]}
        k == [c \in cells |-> run_ending_at(a, b, c[1], c[2], alo, blo)]
        first_longest(c) ==
            \A d \in cells :
                \/ k[c] > k[d]
                \/ /\ k[c] = k[d]
                   /\ \/ c[1] < d[1]
                      \/ c[1] = d[1] /\ c[2] <= d[2]
        block(c) == <<c[1] - k[c] + 1, c[2] - k[c] + 1, k[c]>>
    IN  IF cells = {} THEN <<alo, blo, 0>>
        ELSE block(CHOOSE c \in cells : first_longest(c))

\* The sum of the sizes of SequenceMatcher.get_matching_blocks(): the
\* longest block m, then the same left of it and right of it.
RECURSIVE matches_in(_, _, _, _, _, _)
matches_around(a, b, alo, ahi, blo, bhi, m) ==
    IF m[3] = 0 THEN 0
    ELSE m[3]
         + (IF alo < m[1] /\ blo < m[2]
            THEN matches_in(a, b, alo, m[1], blo, m[2]) ELSE 0)
         + (IF m[1] + m[3] < ahi /\ m[2] + m[3] < bhi
            THEN matches_in(a, b, m[1] + m[3], ahi, m[2] + m[3], bhi) ELSE 0)

matches_in(a, b, alo, ahi, blo, bhi) ==
    matches_around(a, b, alo, ahi, blo, bhi,
                   find_longest_match(a, b, alo, ahi, blo, bhi))

\* SequenceMatcher.ratio() = 2.0 * matches / (len(a) + len(b)), kept as the
\* fraction <<numerator, denominator>>; 1.0 for two empty strings.
ratio(a, b) ==
    IF Len(a) + Len(b) = 0 THEN <<1, 1>>
    ELSE <<2 * matches_in(a, b, 0, Len(a), 0, Len(b)), Len(a) + Len(b)>>

\* A cutoff that a ratio of exactly 0.6 does not pass.
ratio_ge_cutoff_estricto(r) == 10 * r[1] > 6 * r[2]

\* ratio r >= cutoff 0.6
ratio_ge_cutoff(r) == 10 * r[1] >= 6 * r[2]

\* (score1, x1) > (score2, x2) as Python compares the tuples nlargest sorts.
scored_greater(r1, x1, r2, x2) ==
    \/ r1[1] * r2[2] > r2[1] * r1[2]
    \/ r1[1] * r2[2] = r2[1] * r1[2] /\ str_less(x2, x1)

\* get_close_matches(word, possibilities, n=1, cutoff=0.6): the list with
\* the best-scoring possibility, or the empty list.
get_close_matches(word, possibilities) ==
    LET score == [k \in 1..Len(possibilities) |-> ratio(possibilities[k], word)]
        good  == {k \in 1..Len(possibilities) : ratio_ge_cutoff(score[k])}
        largest(k) ==
            \A h \in good :
                \/ possibilities[h] = possibilities[k]
                \/ scored_greater(score[k], possibilities[k],
                                  score[h], possibilities[h])
    IN  IF good = {} THEN <<>>
        ELSE <<possibilities[CHOOSE k \in good : largest(k)]>>

-----------------------------------------------------------------------------
(* Helper functions                                                        *)

\* find_product_fuzzy: the key of the product found, or None.
find_product_fuzzy(nombre) ==
    LET nombre_lower == lower(strip(nombre))
        first_or_none(matches) == IF matches # <<>> THEN matches[1] ELSE None
    IN  IF \E k \in 1..Len(ProductKeys) : ProductKeys[k] = nombre_lower
        THEN nombre_lower
        ELSE first_or_none(get_close_matches(nombre_lower, ProductKeys))

\* A Python int taken as a float amount.
float(n) == n * 10000

\* format_price: f"${amount:,.2f}", as the number of cents printed
\* (round-half-even on the exact amount).
format_price(amount) ==
    LET q == amount \div 100
        r == amount % 100
    IN  IF r > 50 \/ (r = 50 /\ q % 2 = 1) THEN q + 1 ELSE q

\* A lookup that compares the line's name with the product id, and so
\* never finds a line.
get_cart_item_by_product_por_nombre(its, producto_id) ==
    IF \E i \in 1..Len(its) : its[i].nombre = producto_id
    THEN CHOOSE i \in 1..Len(its) : its[i].nombre = producto_id
    ELSE 0

\* get_cart_item_by_product: the position in its of the first line with
\* this product id, 0 for None.
get_cart_item_by_product(its, producto_id) ==
    IF \E i \in 1..Len(its) : its[i].producto_id = producto_id
    THEN CHOOSE i \in 1..Len(its) :
            /\ its[i].producto_id = producto_id
            /\ \A j \in 1..(i - 1) : its[j].producto_id # producto_id
    ELSE 0

-----------------------------------------------------------------------------
(* Data models                                                             *)

\* A line whose subtotal forgets the quantity.
CartItem_sin_cantidad(producto_id, nombre, precio_unitario, cantidad) ==
    [producto_id |-> producto_id, nombre |-> nombre,
     precio_unitario |-> precio_unitario, cantidad |-> cantidad,
     subtotal |-> precio_unitario]

\* CartItem(...) with __post_init__.
CartItem(producto_id, nombre, precio_unitario, cantidad) ==
    [producto_id |-> producto_id, nombre |-> nombre,
     precio_unitario |-> precio_unitario, cantidad |-> cantidad,
     subtotal |-> precio_unitario * cantidad]

\* The Cart object.
carrito == [items |-> items, discount_code |-> discount_code]

RECURSIVE sum_subtotal(_)
sum_subtotal(its) ==
    IF its = <<>> THEN 0 ELSE its[1].subtotal + sum_subtotal(Tail(its))

RECURSIVE sum_cantidad(_)
sum_cantidad(its) ==
    IF its = <<>> THEN 0 ELSE its[1].cantidad + sum_cantidad(Tail(its))

get_subtotal(cart) == float(sum_subtotal(cart.items))

get_discount_amount(cart) ==
    IF /\ cart.discount_code # None
       /\ cart.discount_code # <<>>
       /\ cart.discount_code \in DiscountKeys
    THEN (get_subtotal(cart) \div 100) * DiscountRate(cart.discount_code)
    ELSE 0

\* Tax taken on the subtotal before the discount.
get_tax_sin_descuento(cart) ==
    (get_subtotal(cart) \div 100) * TAX_RATE

get_tax(cart) ==
    LET subtotal_after_discount == get_subtotal(cart) - get_discount_amount(cart)
    IN  (subtotal_after_discount \div 100) * TAX_RATE

\* Free shipping decided on the subtotal after the discount.
get_shipping_tras_descuento(cart) ==
    IF get_subtotal(cart) - get_discount_amount(cart) >= float(SHIPPING_THRESHOLD)
    THEN 0
    ELSE float(SHIPPING_COST)

get_shipping(cart) ==
    IF get_subtotal(cart) >= float(SHIPPING_THRESHOLD)
    THEN 0
    ELSE float(SHIPPING_COST)

get_total(cart) ==
    LET subtotal == get_subtotal(cart)
        discount == get_discount_amount(cart)
        tax      == get_tax(cart)
        shipping == get_shipping(cart)
    IN  subtotal - discount + tax + shipping

-----------------------------------------------------------------------------
(* The inputs the tools are called with                                    *)

\* Product names: an exact name in capitals, a misspelt one that only the
\* fuzzy match resolves (to the same product), three more exact names, and
\* one that resolves to nothing.
Consultas ==
    { <<"M","o","u","s","e"," ","G","a","m","i","n","g"," ","P","r","o">>,
      <<"m","o","u","s","e"," ","g","a","m","e","r"," ","p","r","o">>,
      <<"t","e","c","l","a","d","o"," ","m","e","c","a","n","i","c","o"," ","r","g","b">>,
      <<"L","a","p","t","o","p"," ","G","a","m","e","r"," ","P","r","o">>,
      <<" ","m","o","n","i","t","o","r"," ","4","k"," ","h","d","r">>,
      <<"t","a","b","l","e","t">> }

\* The query buscar_producto_por_nombre is called with: misspelt, in
\* capitals and with a leading blank.
ConsultasBusqueda ==
    { <<" ","M","o","u","s","e"," ","G","a","m","e","r"," ","P","r","o">> }

\* Queries that exercise find_product_fuzzy: exact names in capitals and
\* between blanks, names at and just under the cutoff, names close to one
\* key, names close to two keys with different and with equal scores, and
\* names close to none.
ConsultasDifusas ==
    { <<" ","M","o","n","i","t","o","r"," ","4","K"," ","H","D","R"," ">>,
      <<"M","O","U","S","E"," ","G","A","M","I","N","G"," ","P","R","O">>,
      <<"m","o","n","i","t","o">>,
      <<"m","o","n","i","t">>,
      <<"a","u","r","i","c","u","l","a","r","e","s">>,
      <<"t","e","c","l","a","d","o"," ","r","g","b">>,
      <<"m","o","u","s","e"," ","g","a","m","e","r"," ","p","r","o">>,
      <<"l","a","p","t","o","p"," ","g","a","m","i","n","g"," ","p","r","o">>,
      <<"p","r","o"," ","m","o","u","s","e"," ","p","r","o">>,
      <<"g","a","m","i","n","g"," ","l","a","p","t","o","p"," ","p","r","o">>,
      <<" "," ">>,
      <<"t","a","b","l","e","t">> }

\* The names searched for, added and removed when the search history is
\* followed: one that is found, in capitals and after a blank, and one that
\* is not.
ConsultasHistorial ==
    { <<" ","M","o","u","s","e"," ","G","a","m","e","r"," ","P","r","o">>,
      <<"t","a","b","l","e","t">> }

\* cantidad of agregar_al_carrito.
CantidadesAgregar == {0, 1, 2, 20}

\* cantidad of remover_del_carrito: None, or an int.
CantidadesRemover == {<<>>, <<-1>>, <<0>>, <<1>>, <<20>>}

\* Discount codes: valid ones as typed by a user, and an unknown one.
Codigos ==
    { <<" ","w","e","l","c","o","m","e","1","0"," ">>,
      <<"S","A","V","E","2","0">>,
      <<"F","R","E","E","5","0">> }

\* categoria of recomendar_productos: None, or a str.
Categorias ==
    { None,
      <<"p","e","r","i","f","e'","r","i","c","o","s">>,
      <<"j","u","g","u","e","t","e","s">> }

\* categoria of recomendar_productos when the recommendations are
\* followed: None and the empty str, categories of the catalog in other
\* capitals, one without its accent, and one that is not in the catalog.
CategoriasRecomendacion ==
    { None,
      <<>>,
      <<"p","e","r","i","f","e'","r","i","c","o","s">>,
      <<"A","U","D","I","O">>,
      <<"M","o","n","i","t","o","r","e","s">>,
      <<"c","o","m","p","u","t","a","d","o","r","a","s">>,
      <<"p","e","r","i","f","e","r","i","c","o","s">>,
      <<"j","u","g","u","e","t","e","s">> }

\* The model stops adding to the cart at MaxLineas lines and at MaxUnidades
\* units in all, and stops searching at MaxHistorial recorded searches.
MaxLineas == 2

MaxUnidades == 6

MaxHistorial == 1

\* The searches of the find_product_fuzzy queries stop at MaxBusquedas.
MaxBusquedas == 2

\* When the search history is followed the searches stop at
\* MaxBusquedasRecientes, past the five that mostrar_historial_busquedas
\* shows, and the cart at MaxUnidadesHistorial units.
MaxBusquedasRecientes == 6

MaxUnidadesHistorial == 1

\* find_product_fuzzy on the inputs above (the catalog never changes).
ResolucionConsultas ==
    [q \in Consultas \cup ConsultasBusqueda \cup ConsultasDifusas |->
        find_product_fuzzy(q)]

-----------------------------------------------------------------------------
(* Shopping cart state                                                     *)

Init ==
    /\ items = <<>>
    /\ discount_code = None
    /\ historial_busquedas = <<>>
    /\ llamada = "none"
    /\ resultado = [status |-> "none"]

-----------------------------------------------------------------------------
(* Tools                                                                   *)

buscar_producto_por_nombre(nombre_producto) ==
    LET result == ResolucionConsultas[nombre_producto]
    IN  /\ llamada' = "buscar_producto_por_nombre"
        /\ historial_busquedas' = Append(historial_busquedas, nombre_producto)
        /\ UNCHANGED <<items, discount_code>>
        /\ resultado' =
             IF result # None
             THEN LET producto == ProductByKey(result)
                  IN  [status |-> "success",
                       product |-> [id |-> producto.id,
                                    nombre |-> producto.nombre,
                                    precio |-> producto.precio,
                                    precio_formateado |-> format_price(float(producto.precio)),
                                    stock |-> producto.stock,
                                    categoria |-> producto.categoria,
                                    disponible |-> producto.stock > 0],
                       message |-> "Producto encontrado."]
             ELSE [status |-> "not_found",
                   message |-> "No encontre'.",
                   sugerencias |->
                       [k \in 1..3 |->
                           [nombre |-> PRODUCTOS_DB[k].nombre,
                            precio |-> format_price(float(PRODUCTOS_DB[k].precio))]]]

\* A validation that lets a cantidad of zero through.
cantidad_invalida_solo_negativa(cantidad) == cantidad < 0

\* "not isinstance(cantidad, int) or cantidad <= 0" (cantidad is an int here)
cantidad_invalida(cantidad) == cantidad <= 0

\* A stock check that forgets what the cart already holds.
excede_stock_sin_carrito(cantidad_actual, cantidad, stock) ==
    cantidad > stock

\* "cantidad_actual + cantidad > product_info.stock"
excede_stock(cantidad_actual, cantidad, stock) ==
    cantidad_actual + cantidad > stock

\* A remaining count that forgets what the cart already holds.
disponible_sin_carrito(stock, cantidad_actual) == stock

\* "disponible = product_info.stock - cantidad_actual"
disponible(stock, cantidad_actual) == stock - cantidad_actual

\* An increment that overwrites the quantity instead of adding to it.
incrementar_item_sobrescribe(its, i, cantidad) ==
    [its EXCEPT ![i] =
        [@ EXCEPT !.cantidad = cantidad,
                  !.subtotal = its[i].precio_unitario * cantidad]]

\* "existing_item.cantidad += cantidad" and the subtotal after it, on the
\* line at position i.
incrementar_item(its, i, cantidad) ==
    [its EXCEPT ![i] =
        [@ EXCEPT !.cantidad = @ + cantidad,
                  !.subtotal = its[i].precio_unitario * (its[i].cantidad + cantidad)]]

\* An agregar_al_carrito that, asked for more than the stock allows, puts
\* the units that are left in the cart and still reports the error.
agregar_al_carrito_parcial(producto, cantidad) ==
    /\ llamada' = "agregar_al_carrito"
    /\ UNCHANGED <<discount_code, historial_busquedas>>
    /\ IF cantidad_invalida(cantidad) \/ ResolucionConsultas[producto] = None
       THEN /\ resultado' = [status |-> "error",
                             message |-> "No se pudo agregar."]
            /\ UNCHANGED items
       ELSE
       LET product_info    == ProductByKey(ResolucionConsultas[producto])
           existing_item   == get_cart_item_by_product(items, product_info.id)
           cantidad_actual == IF existing_item # 0
                              THEN items[existing_item].cantidad ELSE 0
           agregada        == IF excede_stock(cantidad_actual, cantidad, product_info.stock)
                              THEN product_info.stock - cantidad_actual
                              ELSE cantidad
       IN  /\ items' =
                IF existing_item # 0
                THEN incrementar_item(items, existing_item, agregada)
                ELSE Append(items, CartItem(product_info.id, product_info.nombre,
                                            product_info.precio, agregada))
           /\ resultado' =
                IF excede_stock(cantidad_actual, cantidad, product_info.stock)
                THEN [status |-> "error",
                      message |-> "Stock insuficiente.",
                      stock_actual |-> product_info.stock,
                      en_carrito |-> cantidad_actual,
                      disponible |-> disponible(product_info.stock, cantidad_actual)]
                ELSE [status |-> "success",
                      message |-> "Agregado al carrito."]

agregar_al_carrito(producto, cantidad) ==
    /\ llamada' = "agregar_al_carrito"
    /\ UNCHANGED <<discount_code, historial_busquedas>>
    /\ IF cantidad_invalida(cantidad)
       THEN /\ resultado' = [status |-> "error",
                             message |-> "La cantidad debe ser un nu'mero entero mayor que cero."]
            /\ UNCHANGED items
       ELSE
       LET result == ResolucionConsultas[producto]
       IN  IF result = None
           THEN /\ resultado' = [status |-> "error",
                                 message |-> "No encontre' el producto."]
                /\ UNCHANGED items
           ELSE
           LET product_info    == ProductByKey(result)
               existing_item   == get_cart_item_by_product(items, product_info.id)
               cantidad_actual == IF existing_item # 0
                                  THEN items[existing_item].cantidad ELSE 0
           IN  IF excede_stock(cantidad_actual, cantidad, product_info.stock)
               THEN /\ resultado' =
                         [status |-> "error",
                          message |-> "Stock insuficiente.",
                          stock_actual |-> product_info.stock,
                          en_carrito |-> cantidad_actual,
                          disponible |-> disponible(product_info.stock, cantidad_actual)]
                    /\ UNCHANGED items
               ELSE /\ items' =
                         IF existing_item # 0
                         THEN incrementar_item(items, existing_item, cantidad)
                         ELSE Append(items, CartItem(product_info.id, product_info.nombre,
                                                     product_info.precio, cantidad))
                    /\ resultado' =
                         [status |-> "success",
                          message |-> "Agregado al carrito.",
                          producto_agregado |->
                              [nombre |-> product_info.nombre,
                               cantidad |-> cantidad,
                               precio_unitario |-> format_price(float(product_info.precio)),
                               subtotal |-> format_price(float(product_info.precio * cantidad))],
                          carrito_resumen |->
                              [total_items |-> sum_cantidad(items'),
                               subtotal |-> format_price(get_subtotal(carrito')),
                               envio_gratis |->
                                   get_subtotal(carrito') >= float(SHIPPING_THRESHOLD)]]

\* The "items" list of ver_carrito and "resumen_productos" of calcular_total.
items_detail(its) ==
    [i \in 1..Len(its) |->
        [nombre |-> its[i].nombre,
         cantidad |-> its[i].cantidad,
         precio_unitario |-> format_price(float(its[i].precio_unitario)),
         subtotal |-> format_price(float(its[i].subtotal))]]

\* A ver_carrito without the empty-cart answer.
ver_carrito_sin_vacio ==
    /\ llamada' = "ver_carrito"
    /\ UNCHANGED <<items, discount_code, historial_busquedas>>
    /\ resultado' =
         [status |-> "success",
          items |-> items_detail(items),
          total_productos |-> Len(items),
          total_unidades |-> sum_cantidad(items),
          calculos |->
              [subtotal |-> format_price(get_subtotal(carrito)),
               total |-> format_price(get_total(carrito))]]

ver_carrito ==
    /\ llamada' = "ver_carrito"
    /\ UNCHANGED <<items, discount_code, historial_busquedas>>
    /\ resultado' =
         IF items = <<>>
         THEN [status |-> "empty", message |-> "El carrito esta' vaci'o."]
         ELSE
         LET subtotal == get_subtotal(carrito)
             discount == get_discount_amount(carrito)
             tax      == get_tax(carrito)
             shipping == get_shipping(carrito)
             total    == get_total(carrito)
         IN  [status |-> "success",
              items |-> items_detail(items),
              total_productos |-> Len(items),
              total_unidades |-> sum_cantidad(items),
              calculos |->
                  [subtotal |-> format_price(subtotal),
                   descuento |-> IF discount > 0
                                 THEN <<format_price(discount)>> ELSE <<>>,
                   codigo_descuento |-> discount_code,
                   impuestos |-> format_price(tax),
                   envio |-> format_price(shipping),
                   envio_gratis |-> shipping = 0,
                   total |-> format_price(total)],
              mensaje_ahorro |-> IF discount > 0
                                 THEN <<format_price(discount)>> ELSE <<>>,
              mensaje_envio |-> shipping = 0 /\ subtotal >= float(SHIPPING_THRESHOLD)]

\* An aplicar_descuento that drops the code in effect when it refuses one.
aplicar_descuento_olvida(codigo) ==
    /\ llamada' = "aplicar_descuento"
    /\ UNCHANGED <<items, historial_busquedas>>
    /\ IF items = <<>> \/ upper(strip(codigo)) \notin DiscountKeys
       THEN /\ resultado' =
                 [status |-> "error",
                  message |-> "Co'digo no va'lido.",
                  codigos_disponibles |->
                      [k \in 1..Len(DISCOUNT_CODES) |-> DISCOUNT_CODES[k].codigo]]
            /\ discount_code' = None
       ELSE /\ discount_code' = upper(strip(codigo))
            /\ resultado' =
                 [status |-> "success",
                  message |-> "Co'digo aplicado.",
                  descuento |->
                      [codigo |-> upper(strip(codigo)),
                       porcentaje |-> DiscountRate(upper(strip(codigo))),
                       monto |-> format_price(get_discount_amount(carrito')),
                       subtotal_original |-> format_price(get_subtotal(carrito')),
                       total_con_descuento |-> format_price(get_total(carrito'))]]

\* An aplicar_descuento that keeps the code in effect when there is one.
aplicar_descuento_conserva_primero(codigo) ==
    /\ llamada' = "aplicar_descuento"
    /\ UNCHANGED <<items, historial_busquedas>>
    /\ IF items = <<>>
       THEN /\ resultado' = [status |-> "error",
                             message |-> "El carrito esta' vaci'o."]
            /\ UNCHANGED discount_code
       ELSE IF upper(strip(codigo)) \notin DiscountKeys
       THEN /\ resultado' =
                 [status |-> "error",
                  message |-> "Co'digo no va'lido.",
                  codigos_disponibles |->
                      [k \in 1..Len(DISCOUNT_CODES) |-> DISCOUNT_CODES[k].codigo]]
            /\ UNCHANGED discount_code
       ELSE /\ discount_code' = IF discount_code = None
                                THEN upper(strip(codigo)) ELSE discount_code
            /\ resultado' =
                 [status |-> "success",
                  message |-> "Co'digo aplicado.",
                  descuento |->
                      [codigo |-> upper(strip(codigo)),
                       porcentaje |-> DiscountRate(upper(strip(codigo))),
                       monto |-> format_price(get_discount_amount(carrito')),
                       subtotal_original |-> format_price(get_subtotal(carrito')),
                       total_con_descuento |-> format_price(get_total(carrito'))]]

\* An aplicar_descuento that refuses the code already in effect.
aplicar_descuento_una_vez(codigo) ==
    /\ llamada' = "aplicar_descuento"
    /\ UNCHANGED <<items, historial_busquedas>>
    /\ IF items = <<>> \/ upper(strip(codigo)) \notin DiscountKeys
          \/ upper(strip(codigo)) = discount_code
       THEN /\ resultado' = [status |-> "error",
                             message |-> "Co'digo no aplicable."]
            /\ UNCHANGED discount_code
       ELSE /\ discount_code' = upper(strip(codigo))
            /\ resultado' =
                 [status |-> "success",
                  message |-> "Co'digo aplicado.",
                  descuento |->
                      [codigo |-> upper(strip(codigo)),
                       porcentaje |-> DiscountRate(upper(strip(codigo))),
                       monto |-> format_price(get_discount_amount(carrito')),
                       subtotal_original |-> format_price(get_subtotal(carrito')),
                       total_con_descuento |-> format_price(get_total(carrito'))]]

aplicar_descuento(codigo) ==
    /\ llamada' = "aplicar_descuento"
    /\ UNCHANGED <<items, historial_busquedas>>
    /\ IF items = <<>>
       THEN /\ resultado' = [status |-> "error",
                             message |-> "El carrito esta' vaci'o."]
            /\ UNCHANGED discount_code
       ELSE
       LET codigo_upper == upper(strip(codigo))
       IN  IF codigo_upper \notin DiscountKeys
           THEN /\ resultado' =
                     [status |-> "error",
                      message |-> "Co'digo no va'lido.",
                      codigos_disponibles |->
                          [k \in 1..Len(DISCOUNT_CODES) |-> DISCOUNT_CODES[k].codigo]]
                /\ UNCHANGED discount_code
           ELSE /\ discount_code' = codigo_upper
                /\ resultado' =
                     [status |-> "success",
                      message |-> "Co'digo aplicado.",
                      descuento |->
                          [codigo |-> codigo_upper,
                           porcentaje |-> DiscountRate(codigo_upper),
                           monto |-> format_price(get_discount_amount(carrito')),
                           subtotal_original |-> format_price(get_subtotal(carrito')),
                           total_con_descuento |-> format_price(get_total(carrito'))]]

\* list.remove(x): the list without its first element equal to x.
list_remove(its, x) ==
    LET i == CHOOSE k \in 1..Len(its) :
                 its[k] = x /\ \A j \in 1..(k - 1) : its[j] # x
    IN  SubSeq(its, 1, i - 1) \o SubSeq(its, i + 1, Len(its))

\* A full removal only when cantidad is greater than the line's quantity.
remover_completo_estricto(cantidad, item_cantidad) ==
    cantidad = <<>> \/ cantidad[1] > item_cantidad

\* "cantidad is None or cantidad >= item.cantidad"
remover_completo(cantidad, item_cantidad) ==
    cantidad = <<>> \/ cantidad[1] >= item_cantidad

\* A decrement that leaves the line's subtotal as it was.
decrementar_item_sin_subtotal(its, i, cantidad) ==
    [its EXCEPT ![i] = [@ EXCEPT !.cantidad = @ - cantidad]]

\* A decrement that keeps the units removed instead of the units left.
decrementar_item_invertido(its, i, cantidad) ==
    [its EXCEPT ![i] =
        [@ EXCEPT !.cantidad = cantidad,
                  !.subtotal = its[i].precio_unitario * cantidad]]

\* "item.cantidad -= cantidad" and the subtotal after it, on the line at
\* position i.
decrementar_item(its, i, cantidad) ==
    [its EXCEPT ![i] =
        [@ EXCEPT !.cantidad = @ - cantidad,
                  !.subtotal = its[i].precio_unitario * (its[i].cantidad - cantidad)]]

\* A removal that resets the discount code when it leaves the cart empty.
remover_del_carrito_reinicia(producto, cantidad) ==
    /\ llamada' = "remover_del_carrito"
    /\ UNCHANGED historial_busquedas
    /\ LET result == ResolucionConsultas[producto]
       IN  IF result = None
           THEN /\ resultado' = [status |-> "error",
                                 message |-> "Producto no encontrado en el carrito."]
                /\ UNCHANGED items
           ELSE
           LET product_info == ProductByKey(result)
               item == get_cart_item_by_product(items, product_info.id)
           IN  IF item = 0
               THEN /\ resultado' = [status |-> "error",
                                     message |-> "No esta' en el carrito."]
                    /\ UNCHANGED items
               ELSE IF remover_completo(cantidad, items[item].cantidad)
               THEN /\ items' = list_remove(items, items[item])
                    /\ resultado' =
                         [status |-> "success",
                          message |-> "Removido completamente del carrito.",
                          producto_removido |-> product_info.nombre,
                          cantidad_removida |-> items[item].cantidad]
               ELSE IF cantidad[1] > 0
               THEN /\ items' = decrementar_item(items, item, cantidad[1])
                    /\ resultado' =
                         [status |-> "success",
                          message |-> "Removidas unidades.",
                          cantidad_removida |-> cantidad[1],
                          cantidad_restante |-> items'[item].cantidad]
               ELSE /\ resultado' = [status |-> "error",
                                     message |-> "La cantidad debe ser mayor que cero."]
                    /\ UNCHANGED items
    /\ discount_code' = IF items' = <<>> THEN None ELSE discount_code

remover_del_carrito(producto, cantidad) ==
    /\ llamada' = "remover_del_carrito"
    /\ UNCHANGED <<discount_code, historial_busquedas>>
    /\ LET result == ResolucionConsultas[producto]
       IN  IF result = None
           THEN /\ resultado' = [status |-> "error",
                                 message |-> "Producto no encontrado en el carrito."]
                /\ UNCHANGED items
           ELSE
           LET product_info == ProductByKey(result)
               item == get_cart_item_by_product(items, product_info.id)
           IN  IF item = 0
               THEN /\ resultado' = [status |-> "error",
                                     message |-> "No esta' en el carrito."]
                    /\ UNCHANGED items
               ELSE IF remover_completo(cantidad, items[item].cantidad)
               THEN /\ items' = list_remove(items, items[item])
                    /\ resultado' =
                         [status |-> "success",
                          message |-> "Removido completamente del carrito.",
                          producto_removido |-> product_info.nombre,
                          cantidad_removida |-> items[item].cantidad]
               ELSE IF cantidad[1] > 0
               THEN /\ items' = decrementar_item(items, item, cantidad[1])
                    /\ resultado' =
                         [status |-> "success",
                          message |-> "Removidas unidades.",
                          cantidad_removida |-> cantidad[1],
                          cantidad_restante |-> items'[item].cantidad]
               ELSE /\ resultado' = [status |-> "error",
                                     message |-> "La cantidad debe ser mayor que cero."]
                    /\ UNCHANGED items

\* A vaciar_carrito that keeps the discount code.
vaciar_carrito_conserva_codigo ==
    /\ llamada' = "vaciar_carrito"
    /\ items' = <<>>
    /\ UNCHANGED <<discount_code, historial_busquedas>>
    /\ resultado' = [status |-> "success",
                     message |-> "Carrito vaciado correctamente.",
                     productos_removidos |-> Len(items),
                     unidades_removidas |-> sum_cantidad(items)]

vaciar_carrito ==
    LET items_count == Len(items)
        units_count == sum_cantidad(items)
    IN  /\ llamada' = "vaciar_carrito"
        /\ items' = <<>>
        /\ discount_code' = None
        /\ UNCHANGED historial_busquedas
        /\ resultado' = [status |-> "success",
                         message |-> "Carrito vaciado correctamente.",
                         productos_removidos |-> items_count,
                         unidades_removidas |-> units_count]

calcular_total ==
    /\ llamada' = "calcular_total"
    /\ UNCHANGED <<items, discount_code, historial_busquedas>>
    /\ resultado' =
         IF items = <<>>
         THEN [status |-> "empty",
               message |-> "El carrito esta' vaci'o.",
               total |-> format_price(float(0))]
         ELSE
         LET subtotal == get_subtotal(carrito)
             discount == get_discount_amount(carrito)
             tax      == get_tax(carrito)
             shipping == get_shipping(carrito)
             total    == get_total(carrito)
             ahorros  == (IF discount > 0 THEN <<"Descuento">> ELSE <<>>)
                         \o (IF shipping = 0 /\ subtotal >= float(SHIPPING_THRESHOLD)
                             THEN <<"Envi'o gratis">> ELSE <<>>)
         IN  [status |-> "success",
              resumen_productos |-> items_detail(items),
              subtotal |-> format_price(subtotal),
              descuento |-> IF discount > 0
                            THEN <<[codigo |-> discount_code,
                                    monto |-> format_price(discount)]>>
                            ELSE <<>>,
              impuestos |-> [tasa |-> TAX_RATE, monto |-> format_price(tax)],
              envio |-> [costo |-> format_price(shipping),
                         gratis |-> shipping = 0,
                         umbral_gratis |-> format_price(float(SHIPPING_THRESHOLD))],
              total |-> format_price(total),
              ahorros_totales |->
                  IF ahorros # <<>>
                  THEN <<[items |-> ahorros,
                          total |-> format_price(discount
                                     + (IF shipping = 0 THEN float(SHIPPING_COST) ELSE 0))]>>
                  ELSE <<>>]

\* An order by the number of reviews alone.
mejor_valorado_por_reviews(p1, p2) == p1.reviews > p2.reviews

\* p1 sorts before p2 under key (rating, reviews), reverse=True.
mejor_valorado(p1, p2) ==
    \/ p1.rating > p2.rating
    \/ p1.rating = p2.rating /\ p1.reviews > p2.reviews

\* list.sort(key=(rating, reviews), reverse=True): stable, so products with
\* equal keys keep their order.
RECURSIVE sort_por_rating(_)
sort_por_rating(productos) ==
    IF productos = <<>> THEN <<>>
    ELSE LET i == CHOOSE k \in 1..Len(productos) :
                     /\ \A j \in 1..Len(productos) :
                            ~mejor_valorado(productos[j], productos[k])
                     /\ \A j \in 1..(k - 1) :
                            mejor_valorado(productos[k], productos[j])
         IN  <<productos[i]>>
             \o sort_por_rating(SubSeq(productos, 1, i - 1)
                                \o SubSeq(productos, i + 1, Len(productos)))

\* [p for p in productos if p.categoria.lower() == categoria.lower()]
RECURSIVE filtrar_categoria(_, _)
filtrar_categoria(productos, categoria) ==
    IF productos = <<>> THEN <<>>
    ELSE (IF lower(productos[1].categoria) = lower(categoria)
          THEN <<productos[1]>> ELSE <<>>)
         \o filtrar_categoria(Tail(productos), categoria)

\* The dict recomendar_productos returns.
recomendaciones(categoria) ==
    LET filtra    == categoria # None /\ categoria # <<>>
        productos == IF filtra
                     THEN filtrar_categoria(PRODUCTOS_DB, categoria)
                     ELSE PRODUCTOS_DB
        ordenados == sort_por_rating(productos)
        top       == SubSeq(ordenados, 1, IF Len(ordenados) < 3 THEN Len(ordenados) ELSE 3)
    IN  IF filtra /\ productos = <<>>
        THEN [status |-> "error",
              message |-> "No hay productos en la categori'a.",
              categorias_disponibles |->
                  {PRODUCTOS_DB[k].categoria : k \in 1..Len(PRODUCTOS_DB)}]
        ELSE [status |-> "success",
              categoria |-> IF filtra THEN categoria
                            ELSE <<"T","o","d","a","s">>,
              recomendaciones |->
                  [k \in 1..Len(top) |->
                      [nombre |-> top[k].nombre,
                       precio |-> format_price(float(top[k].precio)),
                       rating |-> top[k].rating,
                       categoria |-> top[k].categoria,
                       disponible |-> top[k].stock > 0]]]

\* recomendaciones on the inputs above (the catalog never changes).
RecomendacionesCategorias ==
    [c \in Categorias \cup CategoriasRecomendacion |-> recomendaciones(c)]

recomendar_productos(categoria) ==
    /\ llamada' = "recomendar_productos"
    /\ UNCHANGED <<items, discount_code, historial_busquedas>>
    /\ resultado' = RecomendacionesCategorias[categoria]

\* A history that shows the five oldest searches.
mostrar_historial_busquedas_primeras ==
    /\ llamada' = "mostrar_historial_busquedas"
    /\ UNCHANGED <<items, discount_code, historial_busquedas>>
    /\ resultado' =
         IF historial_busquedas = <<>>
         THEN [status |-> "empty", message |-> "No hay bu'squedas recientes."]
         ELSE [status |-> "success",
               historial |->
                   SubSeq(historial_busquedas, 1,
                          IF Len(historial_busquedas) > 5
                          THEN 5 ELSE Len(historial_busquedas)),
               total_busquedas |-> Len(historial_busquedas)]

mostrar_historial_busquedas ==
    /\ llamada' = "mostrar_historial_busquedas"
    /\ UNCHANGED <<items, discount_code, historial_busquedas>>
    /\ resultado' =
         IF historial_busquedas = <<>>
         THEN [status |-> "empty", message |-> "No hay bu'squedas recientes."]
         ELSE [status |-> "success",
               historial |->
                   SubSeq(historial_busquedas,
                          IF Len(historial_busquedas) > 5
                          THEN Len(historial_busquedas) - 4 ELSE 1,
                          Len(historial_busquedas)),
               total_busquedas |-> Len(historial_busquedas)]

-----------------------------------------------------------------------------
(* The agent calls any tool with any arguments, one call at a time.        *)

Buscar ==
    \E q \in ConsultasBusqueda :
        /\ Len(historial_busquedas) < MaxHistorial
        /\ buscar_producto_por_nombre(q)

Agregar ==
    \E p \in Consultas, c \in CantidadesAgregar :
        /\ agregar_al_carrito(p, c)
        /\ Len(items') <= MaxLineas
        /\ sum_cantidad(items') <= MaxUnidades

Ver == ver_carrito

Descuento == \E c \in Codigos : aplicar_descuento(c)

Remover ==
    \E p \in Consultas, c \in CantidadesRemover : remover_del_carrito(p, c)

Vaciar == vaciar_carrito

Total == calcular_total

Recomendar == \E c \in Categorias : recomendar_productos(c)

Historial == mostrar_historial_busquedas

Next ==
    \/ Buscar
    \/ Agregar
    \/ Ver
    \/ Descuento
    \/ Remover
    \/ Vaciar
    \/ Total
    \/ Recomendar
    \/ Historial

Spec == Init /\ [][Next]_vars

\* The tools that read or write the cart.  The other three tools leave the
\* cart lines and the discount code alone (SoloHistorial below), so the
\* cart goes through the same states with or without them.
NextCarrito ==
    \/ Agregar
    \/ Ver
    \/ Descuento
    \/ Remover
    \/ Vaciar
    \/ Total

SpecCarrito == Init /\ [][NextCarrito]_vars

\* Searches alone, over the queries that exercise find_product_fuzzy.
BuscarDifuso ==
    \E q \in ConsultasDifusas :
        /\ Len(historial_busquedas) < MaxBusquedas
        /\ buscar_producto_por_nombre(q)

NextBusqueda == BuscarDifuso

SpecBusqueda == Init /\ [][NextBusqueda]_vars

\* The search history followed past five searches, with the cart tools
\* that resolve a name or empty the cart called in between.
BuscarReciente ==
    \E q \in ConsultasHistorial :
        /\ Len(historial_busquedas) < MaxBusquedasRecientes
        /\ buscar_producto_por_nombre(q)

AgregarBuscado ==
    \E p \in ConsultasHistorial :
        /\ agregar_al_carrito(p, 1)
        /\ sum_cantidad(items') <= MaxUnidadesHistorial

RemoverBuscado ==
    \E p \in ConsultasHistorial : remover_del_carrito(p, <<>>)

NextHistorial ==
    \/ BuscarReciente
    \/ AgregarBuscado
    \/ RemoverBuscado
    \/ Vaciar
    \/ Historial

SpecHistorial == Init /\ [][NextHistorial]_vars

\* The tools that read the catalog and leave the cart alone: searches,
\* recommendations and the search history.
RecomendarCategoria ==
    \E c \in CategoriasRecomendacion : recomendar_productos(c)

NextCatalogo ==
    \/ BuscarDifuso
    \/ RecomendarCategoria
    \/ Historial

SpecCatalogo == Init /\ [][NextCatalogo]_vars


-----------------------------------------------------------------------------
(* Properties                                                              *)
(* A property of what a call does is stated on the state it is made from:  *)
(* every tool is defined on every state and has one outcome, so            *)
(* ENABLED (tool /\ P) says that the call, made from this state, ends in a *)
(* state and a result satisfying P.  Where the property is stated on the   *)
(* step instead, the step is recognised by the tool that produces it.      *)

\* buscar_producto_por_nombre, recomendar_productos and
\* mostrar_historial_busquedas never change the cart.
SoloHistorial ==
    [][(Buscar \/ Recomendar \/ Historial) => UNCHANGED <<items, discount_code>>]_vars

\* The units of one product in a list of cart lines, over all its lines.
RECURSIVE cantidad_en_carrito(_, _)
cantidad_en_carrito(its, producto_id) ==
    IF its = <<>> THEN 0
    ELSE (IF its[1].producto_id = producto_id THEN its[1].cantidad ELSE 0)
         + cantidad_en_carrito(Tail(its), producto_id)

ProductIds == {PRODUCTOS_DB[k].id : k \in 1..Len(PRODUCTOS_DB)}

\* The queries that name a catalog product.
ConsultasResueltas == {q \in Consultas : ResolucionConsultas[q] # None}

\* C1: in every reachable state, for each catalog product, the units of it
\* in the cart are at most its stock.
C1_CantidadNoExcedeStock ==
    \A id \in ProductIds :
        cantidad_en_carrito(items, id) <= ProductById(id).stock

\* A product is in the cart with its whole stock, and a further
\* agregar_al_carrito of it has just been refused.
C1_Witness ==
    /\ llamada = "agregar_al_carrito"
    /\ resultado.status = "error"
    /\ resultado.message = "Stock insuficiente."
    /\ resultado.disponible = 0
    /\ \E id \in ProductIds :
           cantidad_en_carrito(items, id) = ProductById(id).stock

\* C2: agregar_al_carrito of a resolvable product with a positive cantidad
\* that, added to the units already in the cart, exceeds the stock returns
\* an error with disponible = stock - units in cart and en_carrito = units
\* in cart, and leaves the lines and the discount code as they were; 20
\* units of the stock-10 product on an empty cart leave the cart empty.
C2_StockError ==
    \A p \in ConsultasResueltas :
        LET prod == ProductByKey(ResolucionConsultas[p])
            n    == cantidad_en_carrito(items, prod.id)
        IN  \A q \in CantidadesAgregar :
                (q > 0 /\ n + q > prod.stock)
                => ENABLED ( /\ agregar_al_carrito(p, q)
                             /\ resultado'.status = "error"
                             /\ resultado'.disponible = prod.stock - n
                             /\ resultado'.en_carrito = n
                             /\ items' = items
                             /\ discount_code' = discount_code
                             /\ (items = <<>> /\ q = 20 /\ prod.stock = 10)
                                => items' = <<>> )

\* A stock error for a product that already has units in the cart, with a
\* discount code applied.
C2_Witness ==
    /\ llamada = "agregar_al_carrito"
    /\ resultado.status = "error"
    /\ resultado.message = "Stock insuficiente."
    /\ resultado.en_carrito > 0
    /\ resultado.disponible = resultado.stock_actual - resultado.en_carrito
    /\ discount_code # None

\* C3: after a successful agregar_al_carrito(p, q) the units of that product
\* are the units before plus q, and the units of every other product are
\* unchanged.
C3_AgregarSuma ==
    \A p \in Consultas, q \in CantidadesAgregar :
        ENABLED ( /\ agregar_al_carrito(p, q)
                  /\ resultado'.status = "success"
                     => \A id \in ProductIds :
                            cantidad_en_carrito(items', id)
                                = cantidad_en_carrito(items, id)
                                  + (IF id = ProductByKey(ResolucionConsultas[p]).id
                                     THEN q ELSE 0) )

\* A successful agregar_al_carrito of a product that was already in the
\* cart, beside another product's line.
C3_Witness ==
    /\ llamada = "agregar_al_carrito"
    /\ resultado.status = "success"
    /\ Len(items) = 2
    /\ \E i \in 1..Len(items) :
           /\ items[i].nombre = resultado.producto_agregado.nombre
           /\ items[i].cantidad > resultado.producto_agregado.cantidad

\* ver_carrito has answered on a cart holding only 2 units of Mouse Gaming
\* Pro (added to an empty cart), no code applied.
C4_escenario ==
    /\ llamada = "ver_carrito"
    /\ discount_code = None
    /\ Len(items) = 1
    /\ items[1].producto_id = "MOU002"
    /\ items[1].cantidad = 2

\* C4 as stated: in that scenario ver_carrito reports subtotal 160.00,
\* shipping 10.00, tax 12.80 and total 182.80 (amounts in cents).
C4_Original ==
    C4_escenario
    => /\ resultado.status = "success"
       /\ resultado.calculos.subtotal = 16000
       /\ resultado.calculos.envio = 1000
       /\ resultado.calculos.impuestos = 1280
       /\ resultado.calculos.total = 18280

\* C4, amended: in that scenario ver_carrito reports subtotal 160.00, tax
\* 12.80, and, the subtotal being at least 100, shipping 0.00 and total
\* 172.80 (amounts in cents).
C4_DosMouse ==
    C4_escenario
    => /\ resultado.status = "success"
       /\ resultado.calculos.subtotal = 16000
       /\ resultado.calculos.envio = 0
       /\ resultado.calculos.envio_gratis
       /\ resultado.calculos.impuestos = 1280
       /\ resultado.calculos.total = 17280
       /\ resultado.calculos.descuento = <<>>

\* ver_carrito has answered on a cart holding only 2 units of Mouse Gaming
\* Pro, no code applied.
C4_Witness ==
    /\ llamada = "ver_carrito"
    /\ resultado.status = "success"
    /\ discount_code = None
    /\ items = <<CartItem("MOU002", ProductById("MOU002").nombre, 80, 2)>>
    /\ resultado.total_unidades = 2

\* The figures of the pricing rule, in cents, from the cart lines and the
\* applied code: subtotal, discount, tax on the discounted subtotal,
\* shipping by the pre-discount subtotal.
C5_subtotal == 100 * sum_subtotal(items)

C5_descuento ==
    IF discount_code \in DiscountKeys
    THEN (C5_subtotal * DiscountRate(discount_code)) \div 100
    ELSE 0

C5_impuestos == ((C5_subtotal - C5_descuento) * 8) \div 100

C5_envio == IF C5_subtotal >= 100 * 100 THEN 0 ELSE 10 * 100

\* C5: whenever ver_carrito or calcular_total has answered on a non-empty
\* cart, the reported total is subtotal - discount + tax + shipping, the
\* tax is 8% of the discounted subtotal, and shipping is 0 exactly when the
\* pre-discount subtotal is at least 100 (10 otherwise), also when the
\* discount takes the subtotal below 100.
C5_ReglaDePrecios ==
    /\ (llamada = "ver_carrito" /\ items # <<>>)
       => /\ resultado.calculos.subtotal = C5_subtotal
          /\ resultado.calculos.descuento
                 = (IF C5_descuento > 0 THEN <<C5_descuento>> ELSE <<>>)
          /\ resultado.calculos.impuestos = C5_impuestos
          /\ resultado.calculos.envio = C5_envio
          /\ (resultado.calculos.envio = 0) <=> (C5_subtotal >= 10000)
          /\ resultado.calculos.total
                 = C5_subtotal - C5_descuento + C5_impuestos + C5_envio
    /\ (llamada = "calcular_total" /\ items # <<>>)
       => /\ resultado.subtotal = C5_subtotal
          /\ IF C5_descuento > 0
             THEN /\ Len(resultado.descuento) = 1
                  /\ resultado.descuento[1].monto = C5_descuento
             ELSE resultado.descuento = <<>>
          /\ resultado.impuestos.monto = C5_impuestos
          /\ resultado.envio.costo = C5_envio
          /\ (resultado.envio.costo = 0) <=> (C5_subtotal >= 10000)
          /\ resultado.total
                 = C5_subtotal - C5_descuento + C5_impuestos + C5_envio

\* calcular_total has answered on a cart whose subtotal is at least 100
\* before the discount and below 100 after it.
C5_Witness ==
    /\ llamada = "calcular_total"
    /\ resultado.status = "success"
    /\ C5_subtotal >= 10000
    /\ C5_subtotal - C5_descuento < 10000
    /\ resultado.envio.costo = 0

\* C6: on a cart of subtotal 200.00 with no code applied (one Mouse Gaming
\* Pro and one Teclado Mecanico RGB), aplicar_descuento of WELCOME10
\* succeeds, and afterwards the discount is 20.00, the tax 14.40, the
\* shipping 0 and the total 194.40 (amounts in cents).
C6_Welcome10 ==
    (discount_code = None /\ sum_subtotal(items) = 200)
    => \A c \in Codigos :
           upper(strip(c)) = <<"W","E","L","C","O","M","E","1","0">>
           => ENABLED ( /\ aplicar_descuento(c)
                        /\ resultado'.status = "success"
                        /\ resultado'.descuento.monto = 2000
                        /\ resultado'.descuento.total_con_descuento = 19440
                        /\ format_price(get_discount_amount(carrito')) = 2000
                        /\ format_price(get_tax(carrito')) = 1440
                        /\ format_price(get_shipping(carrito')) = 0
                        /\ format_price(get_total(carrito')) = 19440 )

\* WELCOME10 has just been applied to the cart of one mouse and one
\* keyboard.
C6_Witness ==
    /\ llamada = "aplicar_descuento"
    /\ resultado.status = "success"
    /\ resultado.descuento.codigo = <<"W","E","L","C","O","M","E","1","0">>
    /\ resultado.descuento.subtotal_original = 20000
    /\ {items[i].producto_id : i \in 1..Len(items)} = {"MOU002", "TEC005"}

\* C7: when aplicar_descuento(c) has just succeeded on a non-empty cart,
\* calling aplicar_descuento(c) again succeeds, reports the same discount
\* amount and total, and leaves the cart as the first call left it.
C7_Idempotente ==
    (llamada = "aplicar_descuento" /\ resultado.status = "success")
    => \A c \in Codigos :
           upper(strip(c)) = resultado.descuento.codigo
           => ENABLED ( /\ aplicar_descuento(c)
                        /\ resultado'.status = "success"
                        /\ resultado'.descuento.monto = resultado.descuento.monto
                        /\ resultado'.descuento.total_con_descuento
                               = resultado.descuento.total_con_descuento
                        /\ items' = items
                        /\ discount_code' = discount_code )

\* SAVE20 has just been applied to a cart of two lines.
C7_Witness ==
    /\ llamada = "aplicar_descuento"
    /\ resultado.status = "success"
    /\ discount_code = <<"S","A","V","E","2","0">>
    /\ resultado.descuento.monto > 0
    /\ Len(items) = 2

\* The lines of its other than those of one product, in order.
sin_producto(its, producto_id) ==
    SelectSeq(its, LAMBDA it : it.producto_id # producto_id)

\* C8: for a product in the cart with quantity n, remover_del_carrito with
\* cantidad omitted, and with any cantidad >= n, both succeed, delete the
\* product's line (the same resulting cart: the other lines and the
\* discount code as they were) and report n units removed.
C8_RemocionCompleta ==
    \A p \in ConsultasResueltas :
        LET id == ProductByKey(ResolucionConsultas[p]).id
            n  == cantidad_en_carrito(items, id)
        IN  n > 0 =>
            \A c \in CantidadesRemover :
                (c = <<>> \/ c[1] >= n)
                => ENABLED ( /\ remover_del_carrito(p, c)
                             /\ resultado'.status = "success"
                             /\ resultado'.cantidad_removida = n
                             /\ items' = sin_producto(items, id)
                             /\ discount_code' = discount_code )

\* A whole line of 2 units or more has just been removed, from a cart
\* that keeps another line and a discount code.
C8_Witness ==
    /\ llamada = "remover_del_carrito"
    /\ resultado.status = "success"
    /\ resultado.message = "Removido completamente del carrito."
    /\ resultado.cantidad_removida >= 2
    /\ items # <<>>
    /\ discount_code # None

\* C9: in every reachable state, every cart line has a quantity greater
\* than zero.
C9_CantidadPositiva ==
    \A i \in 1..Len(items) : items[i].cantidad > 0

\* A partial removal has just left a single unit on a line.
C9_Witness ==
    /\ llamada = "remover_del_carrito"
    /\ resultado.status = "success"
    /\ resultado.message = "Removidas unidades."
    /\ resultado.cantidad_restante = 1
    /\ \E i \in 1..Len(items) : items[i].cantidad = 1

\* No two lines of its share a product id.
lineas_distintas(its) ==
    \A i, j \in 1..Len(its) :
        its[i].producto_id = its[j].producto_id => i = j

\* C10: in every reachable state no two cart lines share a product id, and
\* a successful agregar_al_carrito of a product already in the cart, named
\* exactly or approximately, adds to its line and creates no other.
C10_UnaLineaPorProducto ==
    /\ lineas_distintas(items)
    /\ \A p \in ConsultasResueltas :
           LET id == ProductByKey(ResolucionConsultas[p]).id
           IN  (\E i \in 1..Len(items) : items[i].producto_id = id)
               => \A q \in CantidadesAgregar :
                      ENABLED ( /\ agregar_al_carrito(p, q)
                                /\ resultado'.status = "success"
                                   => /\ Len(items') = Len(items)
                                      /\ \A i \in 1..Len(items) :
                                             /\ items'[i].producto_id = items[i].producto_id
                                             /\ items'[i].cantidad
                                                    = items[i].cantidad
                                                      + (IF items[i].producto_id = id
                                                         THEN q ELSE 0) )

\* Units have just been added to the only line of the cart, which held
\* that product already.
C10_Witness ==
    /\ llamada = "agregar_al_carrito"
    /\ resultado.status = "success"
    /\ Len(items) = 1
    /\ items[1].nombre = resultado.producto_agregado.nombre
    /\ items[1].cantidad > resultado.producto_agregado.cantidad

\* The units in a list of cart lines, over the catalog's products.
RECURSIVE unidades(_)
unidades(its) ==
    IF its = <<>> THEN 0 ELSE its[1].cantidad + unidades(Tail(its))

\* C11: from every reachable state, the empty cart included, vaciar_carrito
\* returns success, reports the number of lines and the units that were in
\* the cart, and leaves the cart with no lines and no discount code.
C11_Vaciar ==
    ENABLED ( /\ vaciar_carrito
              /\ resultado'.status = "success"
              /\ resultado'.productos_removidos = Len(items)
              /\ resultado'.unidades_removidas = unidades(items)
              /\ items' = <<>>
              /\ discount_code' = None )

\* vaciar_carrito has just emptied a cart of two lines and three units or
\* more.
C11_Witness ==
    /\ llamada = "vaciar_carrito"
    /\ resultado.status = "success"
    /\ resultado.productos_removidos = 2
    /\ resultado.unidades_removidas >= 3
    /\ items = <<>>
    /\ discount_code = None

\* The codes as aplicar_descuento reads them: trimmed and in capitals.
C12_normalizado(c) ==
    IF c = <<" ","w","e","l","c","o","m","e","1","0"," ">>
    THEN <<"W","E","L","C","O","M","E","1","0">>
    ELSE c

C12_tabla ==
    { <<"W","E","L","C","O","M","E","1","0">>,
      <<"S","A","V","E","2","0">>,
      <<"V","I","P","3","0">> }

\* C12: aplicar_descuento changes the discount code only when the cart has
\* a line and the trimmed, upper-cased code is in the discount table; on an
\* empty cart it returns an error for every code, on a non-empty cart with
\* an unknown code an error listing the valid codes, and in both cases the
\* code in effect (or its absence) is kept.
C12_SoloCodigoValido ==
    [][ llamada' = "aplicar_descuento" =>
          \A c \in Codigos :
              aplicar_descuento(c)
              => IF items = <<>>
                 THEN /\ resultado'.status = "error"
                      /\ discount_code' = discount_code
                 ELSE IF C12_normalizado(c) \notin C12_tabla
                 THEN /\ resultado'.status = "error"
                      /\ {resultado'.codigos_disponibles[k] :
                             k \in 1..Len(resultado'.codigos_disponibles)}
                             = C12_tabla
                      /\ discount_code' = discount_code
                 ELSE /\ resultado'.status = "success"
                      /\ discount_code' = C12_normalizado(c) ]_vars

\* An unknown code has just been refused on a cart that has a code in
\* effect.
C12_Witness ==
    /\ llamada = "aplicar_descuento"
    /\ resultado.status = "error"
    /\ resultado.message = "Co'digo no va'lido."
    /\ Len(resultado.codigos_disponibles) = 3
    /\ items # <<>>
    /\ discount_code # None

\* C13: ver_carrito and calcular_total never change the cart lines, the
\* discount code or the search history; each returns status empty exactly
\* when the cart has no lines and success otherwise, never error.
C13_SoloLectura ==
    /\ ENABLED ( /\ ver_carrito
                 /\ UNCHANGED <<items, discount_code, historial_busquedas>>
                 /\ resultado'.status = (IF items = <<>> THEN "empty" ELSE "success") )
    /\ ENABLED ( /\ calcular_total
                 /\ UNCHANGED <<items, discount_code, historial_busquedas>>
                 /\ resultado'.status = (IF items = <<>> THEN "empty" ELSE "success") )

\* ver_carrito has just answered empty on a cart that has no lines but
\* still has a discount code.
C13_Witness ==
    /\ llamada = "ver_carrito"
    /\ resultado.status = "empty"
    /\ items = <<>>
    /\ discount_code # None

\* unit price x quantity, summed over the lines of its.
RECURSIVE precio_por_cantidad(_)
precio_por_cantidad(its) ==
    IF its = <<>> THEN 0
    ELSE its[1].precio_unitario * its[1].cantidad + precio_por_cantidad(Tail(its))

\* C14: in every reachable state every line's stored subtotal is its unit
\* price times its current quantity, and the subtotal that ver_carrito and
\* calcular_total report is the sum over the lines of unit price x quantity
\* (amounts in cents).
C14_SubtotalesAlDia ==
    /\ \A i \in 1..Len(items) :
           items[i].subtotal = items[i].precio_unitario * items[i].cantidad
    /\ (llamada = "ver_carrito" /\ items # <<>>)
       => /\ resultado.calculos.subtotal = 100 * precio_por_cantidad(items)
          /\ \A i \in 1..Len(items) :
                 resultado.items[i].subtotal
                     = 100 * items[i].precio_unitario * items[i].cantidad
    /\ (llamada = "calcular_total" /\ items # <<>>)
       => /\ resultado.subtotal = 100 * precio_por_cantidad(items)
          /\ \A i \in 1..Len(items) :
                 resultado.resumen_productos[i].subtotal
                     = 100 * items[i].precio_unitario * items[i].cantidad

\* calcular_total has answered on a cart of two lines, one of them with 3
\* units, which no single agregar_al_carrito puts there.
C14_Witness ==
    /\ llamada = "calcular_total"
    /\ resultado.status = "success"
    /\ Len(items) = 2
    /\ \E i \in 1..Len(items) : items[i].cantidad = 3

\* C19: for a product in the cart with quantity n and a cantidad q with
\* 0 < q < n, remover_del_carrito keeps the line, sets its quantity to
\* n - q and its subtotal to unit price x (n - q), reports q removed and
\* n - q remaining, and leaves the other lines, the line order and the
\* discount code as they were.
C19_RemocionParcial ==
    \A p \in ConsultasResueltas :
        LET id == ProductByKey(ResolucionConsultas[p]).id
            n  == cantidad_en_carrito(items, id)
        IN  \A c \in CantidadesRemover :
                (c # <<>> /\ 0 < c[1] /\ c[1] < n)
                => ENABLED ( /\ remover_del_carrito(p, c)
                             /\ resultado'.status = "success"
                             /\ resultado'.cantidad_removida = c[1]
                             /\ resultado'.cantidad_restante = n - c[1]
                             /\ Len(items') = Len(items)
                             /\ \A i \in 1..Len(items) :
                                    IF items[i].producto_id = id
                                    THEN /\ items'[i].producto_id = id
                                         /\ items'[i].nombre = items[i].nombre
                                         /\ items'[i].precio_unitario
                                                = items[i].precio_unitario
                                         /\ items'[i].cantidad = n - c[1]
                                         /\ items'[i].subtotal
                                                = items[i].precio_unitario * (n - c[1])
                                    ELSE items'[i] = items[i]
                             /\ discount_code' = discount_code )

\* A partial removal has just left 2 units or more on a line, beside
\* another line and with a discount code in effect.
C19_Witness ==
    /\ llamada = "remover_del_carrito"
    /\ resultado.status = "success"
    /\ resultado.message = "Removidas unidades."
    /\ resultado.cantidad_restante >= 2
    /\ Len(items) = 2
    /\ discount_code # None

\* C20: every tool call that returns status error leaves the cart lines,
\* the discount code and the search history exactly as they were (an add
\* with a non-positive cantidad, an add or a remove of a product that is
\* not found, an add beyond the stock, a remove of a product that is not in
\* the cart, a remove with cantidad <= 0 of a product that is, a discount
\* code on an empty cart or unknown, a recommendation for a category that
\* matches nothing).
C20_ErrorSinCambios ==
    [][ resultado'.status = "error"
        => UNCHANGED <<items, discount_code, historial_busquedas>> ]_vars

\* A remove with a cantidad that is not positive has just been refused, on
\* a cart with a discount code and after a search was recorded.
C20_Witness ==
    /\ llamada = "remover_del_carrito"
    /\ resultado.status = "error"
    /\ resultado.message = "La cantidad debe ser mayor que cero."
    /\ items # <<>>
    /\ discount_code # None
    /\ historial_busquedas # <<>>

\* The similarity of every catalog key, by its place in the catalog, to the
\* trimmed, lower-cased query.
similitud ==
    [q \in ConsultasDifusas |->
        [k \in 1..Len(ProductKeys) |-> ratio(ProductKeys[k], lower(strip(q)))]]

\* The places of the keys equal to the trimmed, lower-cased query.
exactas(q) == {k \in 1..Len(ProductKeys) : ProductKeys[k] = lower(strip(q))}

\* The places of the keys whose similarity to the query is at least 0.6
\* (three fifths).
cercanas(q) ==
    {k \in 1..Len(ProductKeys) : 5 * similitud[q][k][1] >= 3 * similitud[q][k][2]}

\* The places of the keys that share the highest similarity to the query.
mejores(q) ==
    {k \in 1..Len(ProductKeys) :
        \A h \in 1..Len(ProductKeys) :
            similitud[q][h][1] * similitud[q][k][2]
                <= similitud[q][k][1] * similitud[q][h][2]}

\* The query of the search just made.
ultima_consulta == historial_busquedas[Len(historial_busquedas)]

\* The search just made found the catalog entry at place k.
encontrado(k) ==
    /\ resultado.status = "success"
    /\ resultado.product.id = PRODUCTOS_DB[k].id
    /\ resultado.product.nombre = PRODUCTOS_DB[k].nombre
    /\ resultado.product.precio = PRODUCTOS_DB[k].precio
    /\ resultado.product.stock = PRODUCTOS_DB[k].stock

\* C15: find_product_fuzzy, as a search shows it: a query that, trimmed and
\* lower-cased, equals a catalog key resolves to that key's entry; otherwise
\* a query to which exactly one key has similarity >= 0.6 resolves to that
\* key; and a query to which every key has similarity < 0.6 is not found.
C15_Resolucion ==
    llamada = "buscar_producto_por_nombre" =>
        /\ \A k \in exactas(ultima_consulta) : encontrado(k)
        /\ (exactas(ultima_consulta) = {}
               /\ Cardinality(cercanas(ultima_consulta)) = 1)
           => \A k \in cercanas(ultima_consulta) : encontrado(k)
        /\ cercanas(ultima_consulta) = {} => resultado.status = "not_found"

\* "monito" has just been searched for, after an exact name between blanks:
\* only "monitor 4k hdr" is close to it, at exactly 0.6 (12/20), and it is
\* the product found.
C15_Witness ==
    /\ llamada = "buscar_producto_por_nombre"
    /\ Len(historial_busquedas) = 2
    /\ exactas(historial_busquedas[1]) # {}
    /\ ultima_consulta = <<"m","o","n","i","t","o">>
    /\ exactas(ultima_consulta) = {}
    /\ cercanas(ultima_consulta) = {3}
    /\ similitud[ultima_consulta][3] = <<12, 20>>
    /\ encontrado(3)

\* C16: when the trimmed, lower-cased query equals no catalog key and two
\* or more keys share the highest similarity to it, at least 0.6,
\* find_product_fuzzy returns the one of those keys that comes first in the
\* catalog.
C16_PrimeroEnCatalogo ==
    llamada = "buscar_producto_por_nombre" =>
        LET empatadas == mejores(ultima_consulta) \cap cercanas(ultima_consulta)
        IN  (exactas(ultima_consulta) = {} /\ Cardinality(empatadas) >= 2)
            => \E k \in empatadas :
                   /\ \A h \in empatadas : k <= h
                   /\ encontrado(k)

\* C17: the search history is append-only.  Every
\* buscar_producto_por_nombre call appends its query as given, once,
\* whether the product is found or not; no other call (an add or a remove,
\* which resolve a name too, vaciar_carrito, the history itself) changes
\* it; and mostrar_historial_busquedas returns status empty exactly when
\* nothing is recorded, and otherwise the last min(5, count) queries in the
\* order they were made together with the count of all of them.
C17_HistorialSoloCrece ==
    /\ [][ /\ \A q \in ConsultasHistorial :
                 buscar_producto_por_nombre(q)
                 => historial_busquedas' = Append(historial_busquedas, q)
           /\ llamada' # "buscar_producto_por_nombre"
              => UNCHANGED historial_busquedas ]_vars
    /\ [](llamada = "mostrar_historial_busquedas" =>
            LET count == Len(historial_busquedas)
                n     == IF count < 5 THEN count ELSE 5
            IN  /\ resultado.status = "empty" <=> count = 0
                /\ count > 0 =>
                     /\ resultado.status = "success"
                     /\ Len(resultado.historial) = n
                     /\ \A k \in 1..n :
                            resultado.historial[k]
                                = historial_busquedas[count - n + k]
                     /\ resultado.total_busquedas = count)

\* The history of six searches has just been shown: five queries of the
\* six, the first of which differs from the second both as typed and in
\* whether it was found, on a cart that a found name was added to.
C17_Witness ==
    /\ llamada = "mostrar_historial_busquedas"
    /\ Len(historial_busquedas) = 6
    /\ historial_busquedas[1] # historial_busquedas[2]
    /\ \E k \in 1..6 : /\ ResolucionConsultas[historial_busquedas[k]] # None
                        /\ historial_busquedas[k] # lower(strip(historial_busquedas[k]))
    /\ \E k \in 1..6 : ResolucionConsultas[historial_busquedas[k]] = None
    /\ resultado.status = "success"
    /\ Len(resultado.historial) = 5
    /\ resultado.total_busquedas = 6
    /\ items # <<>>

\* The place in the catalog of the product a recommendation names.
lugar(rec) ==
    CHOOSE k \in 1..Len(PRODUCTOS_DB) : PRODUCTOS_DB[k].nombre = rec.nombre

\* No category is given: None, or the empty str, which the code takes as
\* none.
sin_categoria(c) == c = None \/ c = <<>>

\* The places of the products to recommend from: the whole catalog, or the
\* products of the category given, whatever its capitals.
candidatos_de ==
    [c \in CategoriasRecomendacion |->
        {k \in 1..Len(PRODUCTOS_DB) :
            sin_categoria(c) \/ lower(PRODUCTOS_DB[k].categoria) = lower(c)}]

candidatos(c) == candidatos_de[c]

\* (rating, reviews) of the product at k is at least that of the one at h.
valorado_al_menos(k, h) ==
    \/ PRODUCTOS_DB[k].rating > PRODUCTOS_DB[h].rating
    \/ /\ PRODUCTOS_DB[k].rating = PRODUCTOS_DB[h].rating
       /\ PRODUCTOS_DB[k].reviews >= PRODUCTOS_DB[h].reviews

\* res is what the claim wants of recomendar_productos(c).
recomendado(c, res) ==
    IF ~sin_categoria(c) /\ candidatos(c) = {}
    THEN /\ res.status = "error"
         /\ res.categorias_disponibles =
                {PRODUCTOS_DB[k].categoria : k \in 1..Len(PRODUCTOS_DB)}
    ELSE /\ res.status = "success"
         /\ LET r == res.recomendaciones
                n == IF Cardinality(candidatos(c)) < 3
                     THEN Cardinality(candidatos(c)) ELSE 3
            IN  /\ Len(r) = n
                /\ \A i \in 1..n :
                       /\ \E k \in candidatos(c) :
                              /\ r[i].nombre = PRODUCTOS_DB[k].nombre
                              /\ r[i].rating = PRODUCTOS_DB[k].rating
                              /\ r[i].categoria = PRODUCTOS_DB[k].categoria
                       /\ \A j \in (i + 1)..n :
                              /\ lugar(r[i]) # lugar(r[j])
                              /\ valorado_al_menos(lugar(r[i]), lugar(r[j]))
                       /\ \A k \in candidatos(c) \ {lugar(r[j]) : j \in 1..n} :
                              valorado_al_menos(lugar(r[i]), k)

\* C18: recomendar_productos returns at most 3 products, in descending
\* order of (rating, reviews): the best of the whole catalog when no
\* category is given, the best of the products whose category is the given
\* one, whatever the capitals, otherwise; and for a category that matches no
\* product it returns an error with the categories of the catalog instead.
C18_Recomendaciones ==
    \A c \in CategoriasRecomendacion :
        ENABLED ( /\ recomendar_productos(c)
                  /\ recomendado(c, resultado') )

\* The two products of a category given in lower case have just been
\* recommended, the fourth of the catalog before the second; with no
\* category three of the five products are.
C18_Witness ==
    /\ llamada = "recomendar_productos"
    /\ resultado.status = "success"
    /\ resultado.categoria = <<"p","e","r","i","f","e'","r","i","c","o","s">>
    /\ Len(resultado.recomendaciones) = 2
    /\ lugar(resultado.recomendaciones[1]) = 4
    /\ lugar(resultado.recomendaciones[2]) = 2
    /\ Cardinality(candidatos(None)) = 5
    /\ Len(RecomendacionesCategorias[None].recomendaciones) = 3

\* C21: remover_del_carrito never changes the discount code, not even when
\* it deletes the last line: only vaciar_carrito resets the code.  So a
\* cart emptied by removals keeps the code applied before, and on an empty
\* cart the discount of a product added next is the subtotal times the
\* rate of the code still set, without a new aplicar_descuento; after
\* vaciar_carrito no code is set and that discount is zero.
C21_RemoverConservaCodigo ==
    /\ [][ /\ llamada' = "remover_del_carrito" => UNCHANGED discount_code
           /\ (discount_code # None /\ discount_code' = None)
              => llamada' = "vaciar_carrito" ]_vars
    /\ []( /\ llamada = "vaciar_carrito" => discount_code = None
           /\ items = <<>> =>
                \A p \in ConsultasResueltas :
                    ENABLED ( /\ agregar_al_carrito(p, 1)
                              /\ resultado'.status = "success"
                              /\ discount_code' = discount_code
                              /\ get_discount_amount(carrito') =
                                     IF discount_code = None THEN 0
                                     ELSE (get_subtotal(carrito') \div 100)
                                          * DiscountRate(discount_code)
                              /\ (get_discount_amount(carrito') > 0)
                                     = (discount_code # None) ) )

\* The last line of the cart has just been removed, and the code applied
\* before is still set.
C21_Witness ==
    /\ llamada = "remover_del_carrito"
    /\ resultado.status = "success"
    /\ resultado.message = "Removido completamente del carrito."
    /\ items = <<>>
    /\ discount_code \in DiscountKeys

\* The rate of a code of the discount table, as a percentage.
C22_tasa(c) ==
    IF c = <<"W","E","L","C","O","M","E","1","0">> THEN 10
    ELSE IF c = <<"S","A","V","E","2","0">> THEN 20
    ELSE 30

\* The discount of the cart lines its under code c, in cents: the subtotal
\* times the rate of c, nothing without a code.
C22_descuento(its, c) ==
    IF c = None THEN 0 ELSE precio_por_cantidad(its) * C22_tasa(c)

\* C22: one discount code at most is in effect, and it is absent or a key
\* of the discount table.  A successful aplicar_descuento puts its code in
\* the place of the one applied before, and the code changes in no other
\* way than that or vaciar_carrito; so the discount amount, as the cart
\* computes it and as aplicar_descuento, ver_carrito and calcular_total
\* report it, is always the subtotal times the rate of the valid code
\* applied last, never a sum over several codes.
C22_UnSoloCodigo ==
    /\ []( /\ discount_code = None \/ discount_code \in C12_tabla
           /\ format_price(get_discount_amount(carrito))
                  = C22_descuento(items, discount_code)
           /\ (llamada = "calcular_total" /\ resultado.status = "success")
              => resultado.descuento =
                     IF discount_code = None THEN <<>>
                     ELSE <<[codigo |-> discount_code,
                             monto |-> C22_descuento(items, discount_code)]>>
           /\ (llamada = "ver_carrito" /\ resultado.status = "success")
              => /\ resultado.calculos.codigo_descuento = discount_code
                 /\ resultado.calculos.descuento =
                        IF discount_code = None THEN <<>>
                        ELSE <<C22_descuento(items, discount_code)>> )
    /\ [][ /\ (llamada' = "aplicar_descuento" /\ resultado'.status = "success")
              => /\ resultado'.descuento.codigo \in C12_tabla
                 /\ discount_code' = resultado'.descuento.codigo
                 /\ resultado'.descuento.porcentaje = C22_tasa(discount_code')
                 /\ resultado'.descuento.monto
                        = C22_descuento(items', discount_code')
           /\ discount_code' # discount_code
              => \/ llamada' = "aplicar_descuento" /\ resultado'.status = "success"
                 \/ llamada' = "vaciar_carrito" /\ discount_code' = None ]_vars

\* SAVE20 has just been applied to a cart of two lines: the code in effect
\* is SAVE20 alone and the discount reported is 20% of the subtotal, where
\* WELCOME10 would give 10% and both together 30%.
C22_Witness ==
    /\ llamada = "aplicar_descuento"
    /\ resultado.status = "success"
    /\ resultado.descuento.codigo = <<"S","A","V","E","2","0">>
    /\ discount_code = <<"S","A","V","E","2","0">>
    /\ Len(items) = 2
    /\ resultado.descuento.monto = 20 * precio_por_cantidad(items)
    /\ resultado.descuento.monto > 0

====
